---------------------------- MODULE Spec2Model ----------------------------
(***************************************************************************)
(* MemoryManager.js: the Store (main thread, src/src/memory-manager.js     *)
(* lines 1-237, with its IndexMap, lines 253-322) and the Collector (the   *)
(* garbage-collector worker, src/unnamed/part_000 lines 1-254), linked by  *)
(* two FIFO message channels (Worker.postMessage in both directions).      *)
(*                                                                         *)
(* Values.  A JavaScript value stored in a property is modelled as a       *)
(* record [isArr, v]: a scalar has isArr = FALSE and v = <<n>>, an Array   *)
(* has isArr = TRUE and v = its elements.  Scalars are integers:           *)
(*   1..MaxIds  the id strings (UUIDs), numbered in order of allocation    *)
(*   Null       the value null                                             *)
(*   Str        a string that is no id                                     *)
(*   Undef      the value undefined                                        *)
(* An object (a record of the Store, a snapshot of the Collector, the      *)
(* content of a message) is a sequence of [k, val] pairs in the order of   *)
(* Object.keys.                                                            *)
(***************************************************************************)
EXTENDS Integers, Sequences, FiniteSets, TLC

\* ------------------------------------------------------------- bounds
MaxIds == 2
MaxTime == 2
MaxQueue == 1
MaxArr == 2
MaxCalls == 5
MaxStartup == 2

\* ------------------------------------------------- program constants
InitialCollectionTime == 5000
InitialGarbageTimeDiff == 0

Null == 0
Str == -1
Undef == -2
NaN == -3

Ids == 1..MaxIds
Carriers == 1..MaxIds
Props == {"p"}

Scalar(n) == [isArr |-> FALSE, v |-> <<n>>]
Arr(s) == [isArr |-> TRUE, v |-> s]
UndefV == Scalar(Undef)

\* ---------------------------------------------------- JS primitives
\* Array.prototype.indexOf, 1-based; 0 when absent (JS: -1).
IndexOf(s, x) ==
    IF \E i \in 1..Len(s) : s[i] = x
    THEN CHOOSE i \in 1..Len(s) : s[i] = x /\ \A j \in 1..(i-1) : s[j] /= x
    ELSE 0

\* Array.prototype.splice(i, 1)
Splice1(s, i) == [j \in 1..(Len(s)-1) |-> IF j < i THEN s[j] ELSE s[j+1]]

\* indexOf followed by splice when found
RemoveFirst(s, x) == IF IndexOf(s, x) > 0 THEN Splice1(s, IndexOf(s, x)) ELSE s

HasKey(obj, k) == \E i \in 1..Len(obj) : obj[i].k = k

\* obj[k]
GetProp(obj, k) ==
    IF HasKey(obj, k) THEN obj[CHOOSE i \in 1..Len(obj) : obj[i].k = k].val ELSE UndefV

\* obj[k] = val
PutProp(obj, k, val) ==
    IF HasKey(obj, k)
    THEN [i \in 1..Len(obj) |-> IF obj[i].k = k THEN [k |-> k, val |-> val] ELSE obj[i]]
    ELSE Append(obj, [k |-> k, val |-> val])

\* Object.assign(target, source)
RECURSIVE ObjectAssign(_, _)
ObjectAssign(target, source) ==
    IF source = << >> THEN target
    ELSE ObjectAssign(PutProp(target, Head(source).k, Head(source).val), Tail(source))


\* ------------------------------------------------------------- state
VARIABLES
    indexReference, \* Store: IndexMap, id -> carrier (0 = no entry)
    weak,           \* Store: IndexMap.weak, carrier -> id (0 = no entry)
    storeData,      \* Store: dataMap, id -> [def, rec]; def = FALSE reads as undefined
    collectionTime, \* Store: collectionTime
    nextId,         \* number of ids generateUUID has handed out so far
    gcMap,          \* Collector: dataMap, a function on the ids it holds
    garbageTimeDiff,\* Collector: garbageTimeDiff
    now,            \* Date.now()
    cmdQ,           \* messages posted by the Store, not yet handled by the Collector
    evtQ,           \* messages posted by the Collector, not yet handled by the Store
    keepAlive,      \* ids whose create call was given keepAlive = true
    updateCbs,      \* ids with an update callback registered (onUpdate)
    disposeCbs,     \* ids with a dispose callback registered (onDispose)
    calls,          \* callback invocations made so far, in order
    nCalls,         \* number of calls of the Store's methods so far
    channel,        \* the Collector's channel exists (the worker is constructed)
    startupQ        \* commands issued before the channel existed, in order

vars == <<indexReference, weak, storeData, collectionTime, nextId, gcMap,
          garbageTimeDiff, now, cmdQ, evtQ, keepAlive, updateCbs, disposeCbs,
          calls, nCalls, channel, startupQ>>

storeVars == <<indexReference, weak, storeData, collectionTime, nextId,
               keepAlive, updateCbs, disposeCbs, calls>>

\* ------------------------------------------------------ the Collector
\* The Collector's functions work on [map, out, threw]: its dataMap, the
\* messages posted so far by the running handler, and whether the handler
\* has been ended by a TypeError.
GcState(map) == [map |-> map, out |-> << >>, threw |-> FALSE]

Without(map, index) == [i \in (DOMAIN map) \ {index} |-> map[i]]

\* shouldBeCollected
shouldBeCollected(data, time, timeDiff) ==
    /\ Len(data.referenced) = 0
    /\ time - data.timestamp > timeDiff

\* the references one property value contributes (loadReferences, loop body)
ValueReferences(val, known) ==
    IF ~val.isArr
    THEN (IF val.v[1] \in known THEN <<val.v[1]>> ELSE << >>)
    ELSE SelectSeq(val.v, LAMBDA e : e \in known)

\* loadReferences: `known` is the key set of dataMap
RECURSIVE loadReferences(_, _)
loadReferences(data, known) ==
    IF data = << >> THEN << >>
    ELSE (IF Head(data).k /= "id" THEN ValueReferences(Head(data).val, known) ELSE << >>)
         \o loadReferences(Tail(data), known)

\* diffReferences, the loop: `list` is popped from its end
RECURSIVE DiffLoop(_, _, _)
DiffLoop(list, added, removed) ==
    IF list = << >> THEN [added |-> added, removed |-> removed]
    ELSE LET id == list[Len(list)]
             rest == SubSeq(list, 1, Len(list) - 1)
             index == IndexOf(added, id)
         IN  IF index = 0
             THEN DiffLoop(rest, added, Append(removed, id))
             ELSE DiffLoop(rest, Splice1(added, index), removed)

diffReferences(initial, final) == DiffLoop(initial, final, << >>)

\* addReference that keeps one entry for each referrer
addReferenceOnce(map, index, reference) ==
    IF index \in DOMAIN map /\ IndexOf(map[index].referenced, reference) = 0
    THEN [map EXCEPT ![index].referenced = Append(@, reference)]
    ELSE map

\* addReference
addReference(map, index, reference) ==
    IF index \in DOMAIN map
    THEN [map EXCEPT ![index].referenced = Append(@, reference)]
    ELSE map

\* removeReference
removeReference(map, index, reference) ==
    IF index \in DOMAIN map
    THEN [map EXCEPT ![index].referenced = RemoveFirst(@, reference)]
    ELSE map

RECURSIVE AddAll(_, _, _)
AddAll(map, added, index) ==
    IF added = << >> THEN map
    ELSE AddAll(addReference(map, Head(added), index), Tail(added), index)

RECURSIVE RemoveAll(_, _, _)
RemoveAll(map, removed, index) ==
    IF removed = << >> THEN map
    ELSE RemoveAll(removeReference(map, Head(removed), index), Tail(removed), index)

\* initialiseData: the content of the create message is not read
initialiseData(map, index, time) ==
    [i \in (DOMAIN map) \cup {index} |->
        IF i = index
        THEN [timestamp |-> time, data |-> << >>, references |-> << >>,
              referenced |-> << >>]
        ELSE map[i]]

\* updateData that makes the node when dataMap holds none for the index
updateDataUpsert(map, index, content, time) ==
    LET m0 == IF index \in DOMAIN map THEN map ELSE initialiseData(map, index, time)
    IN  IF ~content.def THEN [m0 EXCEPT ![index].timestamp = time]
        ELSE [m0 EXCEPT ![index].timestamp = time,
                        ![index].data = ObjectAssign(m0[index].data, content.rec)]

\* updateData: msg.content.def is the truthiness of the `data` argument
updateData(map, index, content, time) ==
    IF index \notin DOMAIN map THEN map
    ELSE IF ~content.def THEN [map EXCEPT ![index].timestamp = time]
    ELSE LET data == ObjectAssign(map[index].data, content.rec)
             references == loadReferences(data, DOMAIN map)
             diff == diffReferences(map[index].references, references)
             m1 == [map EXCEPT ![index].timestamp = time,
                               ![index].data = data,
                               ![index].references = references]
         IN  RemoveAll(AddAll(m1, diff.added, index), diff.removed, index)

\* disposeReference, the loop over the properties of content.data
DisposeValue(val, reference) ==
    IF ~val.isArr
    THEN (IF val.v[1] = reference THEN Scalar(Null) ELSE val)
    ELSE Arr(RemoveFirst(val.v, reference))

\* disposeReference: dataMap.get(index) of an absent index is undefined and
\* reading its .data throws
disposeReference(st, index, reference) ==
    IF index \notin DOMAIN st.map THEN [st EXCEPT !.threw = TRUE]
    ELSE LET content == st.map[index]
             data == [i \in 1..Len(content.data) |->
                        [k |-> content.data[i].k,
                         val |-> DisposeValue(content.data[i].val, reference)]]
         IN  [map |-> [st.map EXCEPT ![index].referenced = RemoveFirst(@, reference),
                                     ![index].data = data],
              out |-> Append(st.out, [name |-> "updated", index |-> index,
                                      data |-> data, cause |-> reference]),
              threw |-> FALSE]

RECURSIVE DisposeLoop(_, _, _)
DisposeLoop(st, references, index) ==
    IF references = << >> THEN st
    ELSE LET s1 == disposeReference(st, Head(references), index)
         IN  IF s1.threw THEN s1 ELSE DisposeLoop(s1, Tail(references), index)

\* disposeData with delete posted before the loop over the references
disposeDataDeleteFirst(st, index) ==
    IF index \notin DOMAIN st.map THEN st
    ELSE LET s0 == [st EXCEPT !.out = Append(@, [name |-> "delete", index |-> index,
                                                 data |-> << >>, cause |-> index])]
             s1 == DisposeLoop(s0, st.map[index].references, index)
         IN  IF s1.threw THEN s1 ELSE [s1 EXCEPT !.map = Without(s1.map, index)]

\* disposeData
disposeData(st, index) ==
    IF index \notin DOMAIN st.map THEN st
    ELSE LET s1 == DisposeLoop(st, st.map[index].references, index)
         IN  IF s1.threw THEN s1
             ELSE [map |-> Without(s1.map, index),
                   out |-> Append(s1.out, [name |-> "delete", index |-> index,
                                           data |-> << >>, cause |-> index]),
                   threw |-> FALSE]

\* garbageCollect: Map.forEach visits the keys in insertion order, which is
\* the order of the create messages, that is the order of allocation.
RECURSIVE CollectFrom(_, _, _, _)
CollectFrom(st, index, time, timeDiff) ==
    IF index > MaxIds THEN st
    ELSE IF index \in DOMAIN st.map /\ shouldBeCollected(st.map[index], time, timeDiff)
         THEN LET s1 == disposeData(st, index)
              IN  IF s1.threw THEN s1 ELSE CollectFrom(s1, index + 1, time, timeDiff)
         ELSE CollectFrom(st, index + 1, time, timeDiff)

\* garbageCollect that tests every node before it removes the first
garbageCollectSnapshot(map, time, timeDiff) ==
    LET eligible == {i \in DOMAIN map : shouldBeCollected(map[i], time, timeDiff)}
        RECURSIVE CollectSet(_, _)
        CollectSet(st, index) ==
            IF index > MaxIds THEN st
            ELSE IF index \in eligible
                 THEN LET s1 == disposeData(st, index)
                      IN  IF s1.threw THEN s1 ELSE CollectSet(s1, index + 1)
                 ELSE CollectSet(st, index + 1)
    IN  CollectSet(GcState(map), 1)

garbageCollect(map, time, timeDiff) == CollectFrom(GcState(map), 1, time, timeDiff)


\* ---------------------------------------------------------- the Store
NoContent == [def |-> FALSE, rec |-> << >>]
Content(rec) == [def |-> TRUE, rec |-> rec]

\* a message of the Store: gc.postMessage({name, index, content, value})
Command(name, index, content, value) ==
    [name |-> name, index |-> index, content |-> content, value |-> value]

\* dataMap.get(index) at the Store
StoreGet(index) == IF index \in Ids THEN storeData[index] ELSE NoContent

\* IndexMap.get(key): by id string (super.get) or by carrier (weak.get)
IdOfCarrier(c) == IF c \in Carriers THEN weak[c] ELSE 0
CarrierOfId(i) == IF i \in Ids THEN indexReference[i] ELSE 0

\* the `reference` argument of the Store's methods: an id string or a carrier
Refs == [isId : BOOLEAN, n : Carriers]

\* typeof reference === "string" ? reference : indexReference.get(reference)
Resolve(r) == IF r.isId THEN r.n ELSE IdOfCarrier(r.n)

\* has(reference), as the Store's create uses it (indexReference.has)
has(r) == IF r.isId THEN CarrierOfId(r.n) /= 0 ELSE IdOfCarrier(r.n) /= 0

\* get(reference, property), the value returned
GetResult(r, property) ==
    LET index == Resolve(r)
        data == IF index /= 0 THEN StoreGet(index) ELSE NoContent
    IN  IF data.def THEN GetProp(data.rec, property) ELSE UndefV

\* the values a caller stores: null, a string, the id of a created object,
\* an Array of such ids
ScalarInputs == {Scalar(Null)} \cup {Scalar(i) : i \in 1..nextId}
InputValues == ScalarInputs \cup {Arr(a) : a \in [1..MaxArr -> 1..nextId]}

\* the `content` argument of create and update: {} or one scalar property
Contents == {<< >>} \cup {<<[k |-> p, val |-> v]>> : p \in Props, v \in ScalarInputs}

\* gc.postMessage(msg): sent on the channel when it exists, appended to
\* the startup queue until then
Send(msg) ==
    IF channel
    THEN /\ Len(cmdQ) < MaxQueue
         /\ cmdQ' = Append(cmdQ, msg)
         /\ UNCHANGED startupQ
    ELSE /\ Len(startupQ) < MaxStartup
         /\ startupQ' = Append(startupQ, msg)
         /\ UNCHANGED cmdQ

\* no message is posted
NoSend == UNCHANGED <<cmdQ, startupQ>>

\* one more call of a method of the Store
Called == nCalls < MaxCalls /\ nCalls' = nCalls + 1

\* MemoryManager.update, as a step of the Store
DoUpdate(index, content) ==
    LET data == IF index /= 0 THEN StoreGet(index) ELSE NoContent
    IN  IF data.def
        THEN /\ storeData' = [storeData EXCEPT
                                ![index] = Content(ObjectAssign(data.rec, content))]
             /\ Send(Command("update", index,
                             Content(ObjectAssign(data.rec, content)), 0))
        ELSE /\ UNCHANGED storeData
             /\ NoSend

\* MemoryManager.create(object, content, keepAlive): the third argument is
\* not a parameter of the method.  Carriers are interchangeable, so a call
\* with an object that has no id takes the first such carrier.
Create(c, content, pinned) ==
    /\ Called
    /\ UNCHANGED channel
    /\ c \in Carriers
    /\ IF IdOfCarrier(c) /= 0
       THEN /\ DoUpdate(IdOfCarrier(c), content)
            /\ UNCHANGED <<indexReference, weak, nextId, keepAlive>>
       ELSE /\ nextId < MaxIds
            /\ \A d \in Carriers : d < c => weak[d] /= 0
            /\ LET id == nextId + 1
                   data == ObjectAssign(<<[k |-> "id", val |-> Scalar(id)]>>, content)
               IN  /\ nextId' = id
                   /\ indexReference' = [indexReference EXCEPT ![id] = c]
                   /\ weak' = [weak EXCEPT ![c] = id]
                   /\ storeData' = [storeData EXCEPT ![id] = Content(data)]
                   /\ Send(Command("create", id, Content(data), 0))
                   /\ keepAlive' = IF pinned THEN keepAlive \cup {id} ELSE keepAlive
    /\ UNCHANGED <<collectionTime, gcMap, garbageTimeDiff, now, evtQ, updateCbs,
                   disposeCbs, calls>>

\* the value a call of create evaluates to: the method has no return
\* statement
CreateResult(c, content) == UndefV

\* MemoryManager.get
Get(r, property) ==
    /\ Called
    /\ UNCHANGED channel
    /\ LET index == Resolve(r)
           data == IF index /= 0 THEN StoreGet(index) ELSE NoContent
       IN  /\ IF data.def
              THEN Send(Command("update", index, NoContent, 0))
              ELSE NoSend
           /\ UNCHANGED <<storeVars, gcMap, garbageTimeDiff, now, evtQ>>

\* MemoryManager.set
Set(r, property, value) ==
    /\ Called
    /\ UNCHANGED channel
    /\ LET index == Resolve(r)
           data == IF index /= 0 THEN StoreGet(index) ELSE NoContent
       IN  /\ IF data.def
              THEN /\ storeData' = [storeData EXCEPT
                                      ![index] = Content(PutProp(data.rec, property, value))]
                   /\ Send(Command("update", index,
                                   Content(<<[k |-> property, val |-> value]>>), 0))
              ELSE /\ UNCHANGED storeData
                   /\ NoSend
           /\ UNCHANGED <<indexReference, weak, collectionTime, nextId, keepAlive,
                          updateCbs, disposeCbs, calls, gcMap, garbageTimeDiff, now, evtQ>>

\* MemoryManager.update
Update(r, content) ==
    /\ Called
    /\ UNCHANGED channel
    /\ DoUpdate(Resolve(r), content)
    /\ UNCHANGED <<indexReference, weak, collectionTime, nextId, keepAlive,
                   updateCbs, disposeCbs, calls, gcMap, garbageTimeDiff, now, evtQ>>

\* MemoryManager.reference: the message is posted whether or not the
\* reference resolves
Reference(r) ==
    /\ Called
    /\ UNCHANGED channel
    /\ LET carrier == IF r.isId THEN CarrierOfId(r.n) ELSE r.n
       IN  /\ Send(Command("update", IdOfCarrier(carrier), NoContent, 0))
           /\ UNCHANGED <<storeVars, gcMap, garbageTimeDiff, now, evtQ>>

\* reference(reference), the value returned: the carrier (0: undefined)
ReferenceResult(r) == IF r.isId THEN CarrierOfId(r.n) ELSE r.n

\* MemoryManager.dispose
Dispose(r) ==
    /\ Called
    /\ UNCHANGED channel
    /\ LET index == Resolve(r)
       IN  /\ IF index /= 0
              THEN Send(Command("dispose", index, NoContent, 0))
              ELSE NoSend
           /\ UNCHANGED <<storeVars, gcMap, garbageTimeDiff, now, evtQ>>

\* Math.round of a number given in halves: h stands for h/2
Round(h) == (h + 1) \div 2

\* the values assigned to collectionTime: h/2 for h in TimeInputs, or NaN
TimeInputs == {1, 2}

\* set collectionTime(time)
SetCollectionTime(h) ==
    /\ Called
    /\ UNCHANGED channel
    /\ IF h /= NaN
       THEN /\ collectionTime' = Round(h)
            /\ Send(Command("time", 0, NoContent, Round(h)))
       ELSE /\ UNCHANGED collectionTime
            /\ NoSend
    /\ UNCHANGED <<indexReference, weak, storeData, nextId, keepAlive, updateCbs,
                   disposeCbs, calls, gcMap, garbageTimeDiff, now, evtQ>>

\* flush(): sends flush{}
Flush ==
    /\ Called
    /\ UNCHANGED channel
    /\ Send(Command("flush", 0, NoContent, 0))
    /\ UNCHANGED <<storeVars, gcMap, garbageTimeDiff, now, evtQ>>

\* the drain replaying the queued commands last first
ChannelReadyReversed ==
    /\ ~channel
    /\ channel' = TRUE
    /\ cmdQ' = cmdQ \o [i \in 1..Len(startupQ) |-> startupQ[Len(startupQ) + 1 - i]]
    /\ startupQ' = << >>
    /\ UNCHANGED <<storeVars, nCalls, gcMap, garbageTimeDiff, now, evtQ>>

\* The channel becomes available: the startup queue is drained once, in
\* the order of submission, and the Store sends directly from then on.
ChannelReady ==
    /\ ~channel
    /\ channel' = TRUE
    /\ cmdQ' = cmdQ \o startupQ
    /\ startupQ' = << >>
    /\ UNCHANGED <<storeVars, nCalls, gcMap, garbageTimeDiff, now, evtQ>>

\* onUpdate(reference, callback): registers when the id is known
OnUpdate(r) ==
    /\ Called
    /\ UNCHANGED channel
    /\ has(r)
    /\ Resolve(r) \notin updateCbs
    /\ updateCbs' = updateCbs \cup {Resolve(r)}
    /\ UNCHANGED <<indexReference, weak, storeData, collectionTime, nextId, keepAlive,
                   disposeCbs, calls, gcMap, garbageTimeDiff, now, cmdQ, evtQ, startupQ>>

\* onDispose(reference, callback): registers when the id is known
OnDispose(r) ==
    /\ Called
    /\ UNCHANGED channel
    /\ has(r)
    /\ Resolve(r) \notin disposeCbs
    /\ disposeCbs' = disposeCbs \cup {Resolve(r)}
    /\ UNCHANGED <<indexReference, weak, storeData, collectionTime, nextId, keepAlive,
                   updateCbs, calls, gcMap, garbageTimeDiff, now, cmdQ, evtQ, startupQ>>

\* event.data.content at the Store's listener: the Collector posts its
\* snapshot under the key `data`, so `content` reads as undefined
EventContent(e) == NoContent

\* the Store's listener, case "updated"
StoreUpdated ==
    /\ UNCHANGED <<nCalls, channel, startupQ>>
    /\ evtQ /= << >>
    /\ Head(evtQ).name = "updated"
    /\ storeData' = [storeData EXCEPT ![Head(evtQ).index] = EventContent(Head(evtQ))]
    /\ evtQ' = Tail(evtQ)
    /\ UNCHANGED <<indexReference, weak, collectionTime, nextId, keepAlive, updateCbs,
                   disposeCbs, calls, gcMap, garbageTimeDiff, now, cmdQ>>

\* the Store's listener, case "delete": IndexMap.delete, dataMap.delete
StoreDelete ==
    /\ UNCHANGED <<nCalls, channel, startupQ>>
    /\ evtQ /= << >>
    /\ Head(evtQ).name = "delete"
    /\ LET index == Head(evtQ).index
       IN  /\ indexReference' = [indexReference EXCEPT ![index] = 0]
           /\ weak' = [c \in Carriers |->
                         IF c = indexReference[index] THEN 0 ELSE weak[c]]
           /\ storeData' = [storeData EXCEPT ![index] = NoContent]
    /\ evtQ' = Tail(evtQ)
    /\ UNCHANGED <<collectionTime, nextId, keepAlive, updateCbs, disposeCbs, calls,
                   gcMap, garbageTimeDiff, now, cmdQ>>


\* ------------------------------------------- the Collector's handlers
\* message listener, case "create"
GcCreate ==
    /\ UNCHANGED <<nCalls, channel, startupQ>>
    /\ cmdQ /= << >>
    /\ Head(cmdQ).name = "create"
    /\ gcMap' = initialiseData(gcMap, Head(cmdQ).index, now)
    /\ cmdQ' = Tail(cmdQ)
    /\ UNCHANGED <<storeVars, garbageTimeDiff, now, evtQ>>

\* message listener, case "update"
GcUpdate ==
    /\ UNCHANGED <<nCalls, channel, startupQ>>
    /\ cmdQ /= << >>
    /\ Head(cmdQ).name = "update"
    /\ gcMap' = updateData(gcMap, Head(cmdQ).index, Head(cmdQ).content, now)
    /\ cmdQ' = Tail(cmdQ)
    /\ UNCHANGED <<storeVars, garbageTimeDiff, now, evtQ>>

\* message listener, case "dispose"
GcDispose ==
    /\ UNCHANGED <<nCalls, channel, startupQ>>
    /\ cmdQ /= << >>
    /\ Head(cmdQ).name = "dispose"
    /\ Len(evtQ) < MaxQueue
    /\ LET st == disposeData(GcState(gcMap), Head(cmdQ).index)
       IN  /\ gcMap' = st.map
           /\ evtQ' = evtQ \o st.out
    /\ cmdQ' = Tail(cmdQ)
    /\ UNCHANGED <<storeVars, garbageTimeDiff, now>>

\* message listener, case "time"
GcTime ==
    /\ UNCHANGED <<nCalls, channel, startupQ>>
    /\ cmdQ /= << >>
    /\ Head(cmdQ).name = "time"
    /\ garbageTimeDiff' = Head(cmdQ).value
    /\ cmdQ' = Tail(cmdQ)
    /\ UNCHANGED <<storeVars, gcMap, now, evtQ>>

\* message listener, case "flush": a TypeError in garbageCollect ends the
\* handler before garbageTimeDiff is restored
GcFlush ==
    /\ UNCHANGED <<nCalls, channel, startupQ>>
    /\ cmdQ /= << >>
    /\ Head(cmdQ).name = "flush"
    /\ Len(evtQ) < MaxQueue
    /\ LET currentCollectionTime == garbageTimeDiff
           st == garbageCollect(gcMap, now, 0)
       IN  /\ gcMap' = st.map
           /\ evtQ' = evtQ \o st.out
           /\ garbageTimeDiff' = IF st.threw THEN 0 ELSE currentCollectionTime
    /\ cmdQ' = Tail(cmdQ)
    /\ UNCHANGED <<storeVars, now>>

\* setInterval(() => garbageCollect(), 500)
Tick ==
    /\ UNCHANGED <<nCalls, channel, startupQ>>
    /\ Len(evtQ) < MaxQueue
    /\ LET st == garbageCollect(gcMap, now, garbageTimeDiff)
       IN  /\ gcMap' = st.map
           /\ evtQ' = evtQ \o st.out
    /\ UNCHANGED <<storeVars, garbageTimeDiff, now, cmdQ>>

\* Date.now() moves on
AdvanceTime ==
    /\ UNCHANGED <<nCalls, channel, startupQ>>
    /\ now < MaxTime
    /\ now' = now + 1
    /\ UNCHANGED <<storeVars, gcMap, garbageTimeDiff, cmdQ, evtQ>>

\* ------------------------------------------------------ specification
\* The state after the two modules are loaded: `time` is the Store's
\* collectionTime, `timeDiff` the Collector's garbageTimeDiff, `ready`
\* whether the Collector's channel exists.
InitWith(time, timeDiff, ready) ==
    /\ indexReference = [i \in Ids |-> 0]
    /\ weak = [c \in Carriers |-> 0]
    /\ storeData = [i \in Ids |-> NoContent]
    /\ collectionTime = time
    /\ nextId = 0
    /\ gcMap = << >>
    /\ garbageTimeDiff = timeDiff
    /\ now = 0
    /\ cmdQ = << >>
    /\ evtQ = << >>
    /\ keepAlive = {}
    /\ updateCbs = {}
    /\ disposeCbs = {}
    /\ calls = << >>
    /\ nCalls = 0
    /\ channel = ready
    /\ startupQ = << >>

\* `gc = new GarbageCollector()` is evaluated when the Store's module is
\* loaded: the channel exists before the first call.
Init == InitWith(InitialCollectionTime, InitialGarbageTimeDiff, TRUE)

StoreCall ==
    \/ \E c \in Carriers, content \in Contents, pinned \in BOOLEAN :
          Create(c, content, pinned)
    \/ \E r \in Refs, p \in Props \cup {"id"} : Get(r, p)
    \/ \E r \in Refs, p \in Props, v \in InputValues : Set(r, p, v)
    \/ \E r \in Refs, content \in Contents : Update(r, content)
    \/ \E r \in Refs : Reference(r)
    \/ \E r \in Refs : Dispose(r)
    \/ \E h \in TimeInputs \cup {NaN} : SetCollectionTime(h)
    \/ Flush

\* registration of callbacks
StoreRegister ==
    \/ \E r \in Refs : OnUpdate(r)
    \/ \E r \in Refs : OnDispose(r)

StoreListener == StoreUpdated \/ StoreDelete

Collector == GcCreate \/ GcUpdate \/ GcDispose \/ GcTime \/ GcFlush \/ Tick

Next == StoreCall \/ StoreListener \/ Collector \/ AdvanceTime

Spec == Init /\ [][Next]_vars


\* The calls that make and unmake the graph: create, set, get and dispose,
\* made with the carrier; the threshold stays as it is at the start.
CoreCall ==
    \/ \E c \in Carriers : Create(c, << >>, FALSE)
    \/ \E c \in Carriers, p \in Props, v \in ScalarInputs :
          Set([isId |-> FALSE, n |-> c], p, v)
    \/ \E c \in Carriers, p \in Props : Get([isId |-> FALSE, n |-> c], p)
    \/ \E c \in Carriers : Dispose([isId |-> FALSE, n |-> c])

Delivery == GcCreate \/ GcUpdate \/ GcDispose

CoreNext == CoreCall \/ StoreListener \/ Delivery \/ Tick \/ AdvanceTime

\* The program with the registration of callbacks, for the claims about
\* their invocation.
NextCb == CoreNext \/ StoreRegister

SpecCb == Init /\ [][NextCb]_vars

\* The program under fairness, for the claims about what happens in the
\* end: the interval timer keeps firing, the clock keeps moving and both
\* event loops keep delivering the posted messages.
FairSpec ==
    /\ Init
    /\ [][CoreNext]_vars
    /\ WF_vars(Tick)
    /\ WF_vars(AdvanceTime)
    /\ WF_vars(Delivery)
    /\ WF_vars(StoreListener)

\* The program whose first statement after loading is the assignment
\* `Memory.collectionTime = ...`, already handled by the Collector: both
\* sides hold the assigned threshold.  With flush and further assignments.
InitTimed == InitWith(Round(2), Round(2), TRUE)

TimeCall == Flush \/ \E h \in 1..(2 * MaxTime) : SetCollectionTime(h)

NextFlush == CoreNext \/ TimeCall \/ GcTime \/ GcFlush

SpecFlush == InitTimed /\ [][NextFlush]_vars

\* The program started before the Collector's channel exists.
InitStartup == InitWith(InitialCollectionTime, InitialGarbageTimeDiff, FALSE)

NextStartup == CoreNext \/ ChannelReady

SpecStartup == InitStartup /\ [][NextStartup]_vars

\* ------------------------------------------------- reading the steps
\* an object holds id `a`: as a scalar property or as an element of an Array
Holds(obj, a) ==
    \E i \in 1..Len(obj) : \E j \in 1..Len(obj[i].val.v) : obj[i].val.v[j] = a

Live(i) == i \in DOMAIN gcMap

\* the step removes node i from the Collector's dataMap
RemovedInStep(i) == i \in DOMAIN gcMap /\ i \notin DOMAIN gcMap'

\* the step is the Collector handling the message at the head of cmdQ
Handles(name) == cmdQ /= << >> /\ Head(cmdQ).name = name /\ cmdQ' = Tail(cmdQ)

\* the step is the Collector handling dispose{i}
HandlesDispose(i) == Handles("dispose") /\ Head(cmdQ).index = i

\* the messages the Collector posts in the step
Posted == SubSeq(evtQ', Len(evtQ) + 1, Len(evtQ'))

\* the step is the Store handling the event at the head of evtQ
Receives(name) == evtQ /= << >> /\ Head(evtQ).name = name /\ evtQ' = Tail(evtQ)

\* the Store has handled delete{i}: ids are handed out once and only the
\* delete event takes an id out of indexReference
Forgotten(i) == i <= nextId /\ indexReference[i] = 0

\* ------------------------------------------------------------ claims
\* C1: after the Collector has handled the removal of node a, no node left
\* in the graph holds a's id in its snapshot: scalars are nulled, Array
\* occurrences are spliced out.
C1_CascadeRewritesReferrers ==
    [][\A a \in Ids : RemovedInStep(a) =>
          \A n \in DOMAIN gcMap' : ~Holds(gcMap'[n].data, a)]_vars

\* C2: while another node b that is still in the graph, known to the Store
\* and not disposed holds a's id in its data (here: in its record at the
\* Store, every write of which the Collector has already handled), a sweep
\* tick or a flush does not remove a.
C2_ReferencedNeverSwept ==
    [][\A a \in Ids : (RemovedInStep(a) /\ ~HandlesDispose(a)) =>
          ~\E b \in Ids \ {a} :
              /\ cmdQ = << >>
              /\ b \in DOMAIN gcMap'
              /\ indexReference[b] /= 0
              /\ storeData[b].def
              /\ Holds(storeData[b].rec, a)]_vars

\* C3: a node created with keepAlive = true leaves the graph only by the
\* handling of a dispose message for its id.
C3_PinnedNeverSwept ==
    [][\A a \in keepAlive : RemovedInStep(a) => HandlesDispose(a)]_vars

\* C5: when the Collector handles dispose{i} for a node i of the graph, the
\* node is removed and delete{i} is posted in that step.
C5_DisposeUnconditional ==
    [][\A i \in Ids : (HandlesDispose(i) /\ Live(i)) =>
          /\ i \notin DOMAIN gcMap'
          /\ \E k \in 1..Len(Posted) :
                Posted[k].name = "delete" /\ Posted[k].index = i]_vars

\* C6: right after the Collector has handled flush, the graph holds no node
\* that is not pinned and has an empty incoming collection.
C6_FlushRemovesCollectable ==
    [][Handles("flush") =>
          \A n \in DOMAIN gcMap' :
              ~(n \notin keepAlive /\ gcMap'[n].referenced = << >>)]_vars

\* C8: after the Store has handled an updated event for id, its record for
\* id is the snapshot the Collector posted, so a property nulled by the
\* cascade reads as null and the others read as before.
C8_UpdatedReplacesMirror ==
    [][Receives("updated") =>
          /\ storeData'[Head(evtQ).index] = Content(Head(evtQ).data)
          /\ \A i \in 1..Len(Head(evtQ).data) :
                GetProp(storeData'[Head(evtQ).index].rec, Head(evtQ).data[i].k)
                    = Head(evtQ).data[i].val]_vars


\* shouldBeCollected holds of node i, which was not created with keepAlive
Collectable(i) ==
    /\ Live(i)
    /\ i \notin keepAlive
    /\ shouldBeCollected(gcMap[i], now, garbageTimeDiff)

DeletePosted(i) ==
    \E k \in 1..Len(evtQ) : evtQ[k].name = "delete" /\ evtQ[k].index = i

\* C4: a node that is not pinned, has an empty incoming collection and is
\* stale does not stay so for ever: unless it is touched or referenced
\* again it is removed, and the Store handles the delete event posted for it.
C4_EventuallyCollected ==
    \A i \in Ids :
        /\ Collectable(i) ~> ~Collectable(i)
        /\ DeletePosted(i) ~> Forgotten(i)

\* C7: every updated event of the cascade of a removed id is posted before
\* delete{id}, and the Store, which handles the events in the order of
\* their posting, has not handled delete{id} while one of them is in flight.
C7_UpdatedBeforeDelete ==
    /\ \A i, j \in 1..Len(evtQ) :
          (/\ evtQ[i].name = "delete"
           /\ evtQ[j].name = "updated"
           /\ evtQ[j].cause = evtQ[i].index) => j < i
    /\ \A j \in 1..Len(evtQ) :
          evtQ[j].name = "updated" => ~Forgotten(evtQ[j].cause)

\* a removal with a cascade has posted its events: updated, then delete
C7_Witness ==
    \E i, j \in 1..Len(evtQ) :
        /\ i < j
        /\ evtQ[i].name = "updated"
        /\ evtQ[j].name = "delete"
        /\ evtQ[i].cause = evtQ[j].index


\* an invocation of a callback, as an entry of `calls`
Invocation(cb, id, property, value) ==
    [cb |-> cb, id |-> id, property |-> property, value |-> value]

\* C9: when the Store handles delete{i}, the dispose callback registered
\* for i is invoked once with i, and the record, the correlation entry and
\* the registration of i are gone afterwards.
C9_DeleteInvokesDisposeCallbacks ==
    [][\A i \in Ids : (Receives("delete") /\ Head(evtQ).index = i) =>
          /\ calls' = IF i \in disposeCbs
                      THEN Append(calls, Invocation("dispose", i, "", UndefV))
                      ELSE calls
          /\ ~storeData'[i].def
          /\ indexReference'[i] = 0
          /\ i \notin disposeCbs']_vars

\* the step is set(reference, property, value) on a known id: it posts an
\* update whose content is that one property
IsSet == /\ nCalls' = nCalls + 1
         /\ Len(cmdQ') = Len(cmdQ) + 1
         /\ cmdQ'[Len(cmdQ')].name = "update"
         /\ cmdQ'[Len(cmdQ')].content.def
         /\ Len(cmdQ'[Len(cmdQ')].content.rec) = 1
         /\ cmdQ'[Len(cmdQ')].content.rec[1].k \in Props

\* C10: set on a known id invokes the update callback registered for the id
\* once, with (id, property, value); the handling of an updated event
\* invokes none.
C10_SetInvokesUpdateCallbacks ==
    [][/\ IsSet =>
            LET m == cmdQ'[Len(cmdQ')]
            IN  calls' = IF m.index \in updateCbs
                         THEN Append(calls, Invocation("update", m.index,
                                        m.content.rec[1].k, m.content.rec[1].val))
                         ELSE calls
       /\ Receives("updated") => calls' = calls]_vars


\* sequence t is sequence s with one element appended
Appended(s, t) == Len(t) = Len(s) + 1 /\ SubSeq(t, 1, Len(s)) = s

\* create{i} is among the commands not yet handled by the Collector
CreatePending(i) ==
    \E k \in 1..Len(cmdQ \o startupQ) :
        (cmdQ \o startupQ)[k].name = "create" /\ (cmdQ \o startupQ)[k].index = i

PostsCommand(name) ==
    \/ Appended(cmdQ, cmdQ') /\ cmdQ'[Len(cmdQ')].name = name
    \/ Appended(startupQ, startupQ') /\ startupQ'[Len(startupQ')].name = name

\* C12: create returns the id of the carrier; on a carrier that already
\* has an id it returns that id, allocates none, posts no create command
\* and merges the content into the record of the id.
C12_IdempotentCreate ==
    [][\A c \in Carriers, content \in Contents, pinned \in BOOLEAN :
          Create(c, content, pinned) =>
              /\ CreateResult(c, content) = Scalar(weak'[c])
              /\ weak[c] /= 0 =>
                    /\ weak'[c] = weak[c]
                    /\ nextId' = nextId
                    /\ ~PostsCommand("create")
                    /\ storeData'[weak[c]] =
                          Content(ObjectAssign(storeData[weak[c]].rec, content))]_vars


\* get(c, "id") is an id string and reference of that string is c
IdReadsBack(c) ==
    LET x == GetResult([isId |-> FALSE, n |-> c], "id")
    IN  /\ ~x.isArr
        /\ x.v[1] \in Ids
        /\ ReferenceResult([isId |-> TRUE, n |-> x.v[1]]) = c

\* C13: get(id, p) right after set(id, p, v) on a known id returns v, for a
\* scalar v; and the property id of a carrier that has an id reads as an id
\* string whose reference is the carrier.
C13_RoundTrip ==
    [][/\ \A r \in Refs, p \in Props, v \in ScalarInputs :
             (has(r) /\ Set(r, p, v)) => GetResult(r, p)' = v
       /\ \A c \in Carriers : (weak[c] /= 0 => IdReadsBack(c))']_vars


\* the step is a call of get, set, update, reference, dispose, onUpdate or
\* onDispose with reference r
CallWith(r) ==
    \/ \E p \in Props \cup {"id"} : Get(r, p)
    \/ \E p \in Props, v \in InputValues : Set(r, p, v)
    \/ \E content \in Contents : Update(r, content)
    \/ Reference(r)
    \/ Dispose(r)
    \/ OnUpdate(r)
    \/ OnDispose(r)

\* C14: a call with a carrier or an id string the Store does not know
\* changes no record, correlation entry or registry and posts no command,
\* and get and reference return undefined for it.
C14_UnknownIdsNoOp ==
    [][\A r \in Refs : (~has(r) /\ CallWith(r)) =>
          /\ UNCHANGED <<storeVars, cmdQ, startupQ>>
          /\ \A p \in Props \cup {"id"} : Get(r, p) => GetResult(r, p) = UndefV
          /\ Reference(r) => ReferenceResult(r) = 0]_vars


\* no command of the Store is waiting to be handled
ChannelEmpty == cmdQ = << >> /\ startupQ = << >>

\* the threshold of the Collector's next tick is the Store's collectionTime
ThresholdsAgree == ChannelEmpty => garbageTimeDiff = collectionTime

\* C15: an assignment of a non-number to collectionTime changes nothing
\* and posts nothing; an assignment of a number stores the rounded value
\* and posts time{value}; and whenever no command is waiting, from the
\* initial state on, the Collector's threshold is the Store's
\* collectionTime.
C15_ThresholdAgreement ==
    [][/\ SetCollectionTime(NaN) => UNCHANGED <<collectionTime, cmdQ, startupQ>>
       /\ \A h \in TimeInputs : SetCollectionTime(h) =>
             /\ collectionTime' = Round(h)
             /\ PostsCommand("time")
             /\ (cmdQ' \o startupQ')[Len(cmdQ' \o startupQ')].value = Round(h)
       /\ ThresholdsAgree
       /\ ThresholdsAgree']_vars


\* C16: the handling of flush leaves the threshold as it was: the tick
\* that follows gates on the same garbageTimeDiff as the tick before.
C16_FlushKeepsThreshold ==
    [][Handles("flush") => garbageTimeDiff' = garbageTimeDiff]_vars


\* the elements of a sequence, as a set
Range(s) == {s[i] : i \in 1..Len(s)}

\* C17: for every node n of the graph, the outgoing collection of n holds
\* exactly the values of its snapshot (properties other than id, scalars
\* and Array elements) that are ids of nodes of the graph; it holds no id
\* of a removed node.
C17_OutgoingExact ==
    \A n \in DOMAIN gcMap :
        Range(gcMap[n].references) =
            Range(loadReferences(gcMap[n].data, DOMAIN gcMap))


\* C18: for all nodes n and m of the graph, m is in the incoming
\* collection of n exactly when n is in the outgoing collection of m; and
\* no incoming collection holds the id of a node that left the graph.
C18_IncomingOutgoingSymmetry ==
    /\ \A n, m \in DOMAIN gcMap :
          m \in Range(gcMap[n].referenced) <=> n \in Range(gcMap[m].references)
    /\ \A n \in DOMAIN gcMap : Range(gcMap[n].referenced) \subseteq DOMAIN gcMap


\* the number of occurrences of x in sequence s
Count(s, x) == Cardinality({i \in 1..Len(s) : s[i] = x})

\* the step is the Collector handling an update, with content, of node m
UpdatesNode(m) ==
    /\ Handles("update")
    /\ Head(cmdQ).index = m
    /\ Head(cmdQ).content.def
    /\ m \in DOMAIN gcMap

UpdatedFor(t, i) ==
    \E k \in 1..Len(Posted) :
        /\ Posted[k].name = "updated"
        /\ Posted[k].index = t
        /\ Posted[k].cause = i

\* C20: when node i is removed, a node t left in the graph whose snapshot
\* did not hold i's id gets no updated event for that removal, keeps its
\* snapshot (unless it held the id of another node removed in the step) and
\* loses no incoming entry other than those keyed to a removed node.
C20_RemovalTouchesOnlyReferrers ==
    [][\A i \in Ids : RemovedInStep(i) =>
          \A t \in DOMAIN gcMap' : ~Holds(gcMap[t].data, i) =>
              /\ ~UpdatedFor(t, i)
              /\ (\A j \in Ids : RemovedInStep(j) => ~Holds(gcMap[t].data, j))
                    => gcMap'[t].data = gcMap[t].data
              /\ \A x \in Ids : ~RemovedInStep(x) =>
                    Count(gcMap'[t].referenced, x) = Count(gcMap[t].referenced, x)]_vars


\* node i has been removed: its id has been handed out, its create command
\* has been handled and the graph holds no node for it
Removed(i) == i <= nextId /\ ~CreatePending(i) /\ ~Live(i)

\* the number of delete events for id i that the Collector posts in the step
DeletesPosted(i) ==
    Cardinality({k \in 1..Len(Posted) :
                    Posted[k].name = "delete" /\ Posted[k].index = i})

\* the step is the Collector handling a command for id i
HandlesCommandFor(i) ==
    /\ Handles("create") \/ Handles("update") \/ Handles("dispose")
    /\ Head(cmdQ).index = i

\* C21: the Collector posts delete{i} once, in the step that removes node
\* i, and in no other step; once removed, i stays removed, and the
\* handling of a command for i changes nothing in the graph and posts
\* nothing.
C21_RemovedIsTerminal ==
    [][\A i \in Ids :
          /\ DeletesPosted(i) <= 1
          /\ DeletesPosted(i) = 1 <=> (~Removed(i) /\ Removed(i)')
          /\ DeletesPosted(i) = 1 => RemovedInStep(i)
          /\ Removed(i) =>
                /\ Removed(i)'
                /\ HandlesCommandFor(i) => (gcMap' = gcMap /\ Posted = << >>)]_vars

\* a command for a removed id is about to be handled
C21_Witness ==
    \E i \in Ids :
        /\ Removed(i)
        /\ cmdQ /= << >>
        /\ Head(cmdQ).index = i
        /\ Head(cmdQ).name \in {"update", "dispose"}


\* the step posts an update command for the id of reference r
Touches(r) ==
    /\ PostsCommand("update")
    /\ (cmdQ' \o startupQ')[Len(cmdQ' \o startupQ')].index = Resolve(r)

\* the step is a call of get, set, update or reference with reference r
TouchCall(r) ==
    \/ \E p \in Props \cup {"id"} : Get(r, p)
    \/ \E p \in Props, v \in InputValues : Set(r, p, v)
    \/ \E content \in Contents : Update(r, content)
    \/ Reference(r)

\* C22: get, set, update and reference on a known id, whose node is in the
\* graph, post an update command for the id; the handling of an update
\* command for a node sets its timestamp to the Collector's clock, and
\* changes nothing else when the command carries no content; and a tick
\* removes no node whose age, now minus timestamp, is at most the
\* Collector's threshold.
C22_TouchesKeepAlive ==
    [][/\ \A r \in Refs : (has(r) /\ Live(Resolve(r)) /\ TouchCall(r)) => Touches(r)
       /\ \A i \in Ids : (Handles("update") /\ Head(cmdQ).index = i /\ Live(i)) =>
             /\ gcMap'[i].timestamp = now
             /\ ~Head(cmdQ).content.def =>
                   gcMap' = [gcMap EXCEPT ![i].timestamp = now]
       /\ \A i \in Ids : (RemovedInStep(i) /\ cmdQ' = cmdQ) =>
             now - gcMap[i].timestamp > garbageTimeDiff]_vars


\* node b is in the graph and an updated event for it, posted by the
\* removal of another node a that referred to it, is in flight
Orphaned(b) ==
    /\ Live(b)
    /\ \E k \in 1..Len(evtQ) :
          /\ evtQ[k].name = "updated"
          /\ evtQ[k].index = b
          /\ evtQ[k].cause /= b
          /\ Removed(evtQ[k].cause)

\* C23: the removal of node a empties the incoming collection of a node b
\* all of whose incoming entries came from a; and such a b, not pinned and
\* stale, does not stay in the graph for ever unless it is touched: it is
\* removed and the Store handles its delete event.
C23_OrphanEventuallyCollected ==
    /\ [][\A a, b \in Ids :
             (/\ a /= b
              /\ RemovedInStep(a)
              /\ b \in DOMAIN gcMap'
              /\ Range(gcMap[b].referenced) = {a}) =>
                 gcMap'[b].referenced = << >>]_vars
    /\ \A b \in Ids :
          (Orphaned(b) /\ Collectable(b)) ~> (~Collectable(b) /\ ~DeletePosted(b))


\* shouldBeCollected holds of node i in the state the pass starts from
Eligible(i, timeDiff) == Live(i) /\ shouldBeCollected(gcMap[i], now, timeDiff)

EligibleWhenVisited(i, timeDiff) ==
    /\ Live(i)
    /\ now - gcMap[i].timestamp > timeDiff
    /\ \A x \in Range(gcMap[i].referenced) : x < i /\ RemovedInStep(x)

C25_RemovalNeverFails ==
    [][/\ \A n \in DOMAIN gcMap' : Range(gcMap'[n].references) \subseteq DOMAIN gcMap'
       /\ GcDispose =>
             /\ ~disposeData(GcState(gcMap), Head(cmdQ).index).threw
             /\ Live(Head(cmdQ).index) =>
                   /\ RemovedInStep(Head(cmdQ).index)
                   /\ DeletesPosted(Head(cmdQ).index) = 1
       /\ Tick => ~garbageCollect(gcMap, now, garbageTimeDiff).threw
       /\ GcFlush => ~garbageCollect(gcMap, now, 0).threw]_vars


\* no message is in flight in either direction
Quiescent == ChannelEmpty /\ evtQ = << >>

\* C26: when no message is in flight, the Store has a record for every id
\* it knows whose node is in the graph, and every property of the record
\* other than id has the value it has in the Collector's snapshot.
C26_StoreCollectorConverge ==
    Quiescent =>
        \A i \in DOMAIN gcMap : indexReference[i] /= 0 =>
            /\ storeData[i].def
            /\ \A p \in Props :
                  GetProp(storeData[i].rec, p) = GetProp(gcMap[i].data, p)


\* the Store knows id i: has(i) is true and its record is readable
Known(i) == indexReference[i] /= 0 /\ storeData[i].def

\* when no message is in flight the Store knows exactly the ids of the
\* nodes of the graph
AgreeOnLive == Quiescent => \A i \in Ids : Known(i) <=> Live(i)

\* C27: after every step, if no message is in flight, the Store knows an
\* id exactly when the graph holds a node for it; and an id whose delete
\* event the Store has handled gets no record and no correlation entry
\* again.
C27_AgreeOnLiveIds ==
    [][/\ AgreeOnLive'
       /\ \A i \in Ids : Forgotten(i) => (Forgotten(i) /\ ~storeData[i].def)']_vars

=============================================================================
